---- MODULE Spec2Model ----
(***************************************************************************)
(* QanYi DAW: the transport and playback scheduling of AudioEngine         *)
(* (src/src/core/AudioEngine.js), the tracks it schedules                  *)
(* (src/src/core/Track.js) and the mute/solo handlers of the track list    *)
(* (src/src/ui/TrackList.js).                                              *)
(*                                                                         *)
(* src/ui/TrackList.js holds two TrackList classes, which differ in        *)
(* handleSoloLogic and removeTrack: Spec, SpecMix and SpecTrackList run    *)
(* the first, SpecTrackList2 the second.                                   *)
(*                                                                         *)
(* Times are integers (one unit = one second of the timeline); a volume    *)
(* or gain is an integer percentage (0.8 is 80).                           *)
(***************************************************************************)
EXTENDS Integers, Sequences, FiniteSets, TLC

VARIABLES
    audioContext,     \* "none" (null), "suspended" or "running"
    created,          \* history: how many audio contexts and master gain nodes init() has made
    now,              \* audioContext.currentTime, the device clock
    resumeWaiter,     \* the call suspended in init() on audioContext.resume()
    micro,            \* the continuation queued as a microtask by `await init()`
    isPlaying, isPaused,
    startTime,        \* the epoch: device time of logical position 0
    pauseTime, currentTime,
    tracks,           \* audioEngine.tracks
    trackCounter,     \* Track.js trackCounter
    activeSources,    \* the started buffer sources (pending commands)
    animationFrameId, \* TRUE when the field holds a frame id (non-null)
    framePending,     \* the frame animationFrameId names has not fired yet
    leakedFrames,     \* requested frames no field refers to any more
    posNotes,         \* onTimeUpdate calls made by the last handler
    stateNotes,       \* onPlayStateChange calls made by the last handler
    lastOp,           \* history: the handler that ran last, with its input
    posAtPause,       \* history: now - startTime when pause() last ran; -1 after any later play, stop or seek
    seekPos,          \* history: max(0, t) of the last seek(t) made while not playing; -1 after any later play, pause or stop
    playInvoked,      \* history: play() was called since pause() or stop() last returned
    onTimeUpdate,     \* audioEngine.onTimeUpdate: the listeners the callback runs, in call order; <<>> is null
    onPlayStateChange,\* audioEngine.onPlayStateChange, likewise
    registered,       \* history: the listeners in the order they subscribed, per callback
    tempo,            \* audioEngine.tempo, a value (numbers in tenths of a BPM)
    bpmInput,         \* the text of the toolbar's BPM field, a value
    tempoArg,         \* history: the value the last tempo operation was given
    editedClip,       \* an AudioClip edited on its own (times in hundredths of a second)
    peaks,            \* history: what getWaveformData last returned; <<>> before any call
    gridTime,         \* the time Timeline.snapTime last returned, a fraction of a second
    timeDisplay,      \* the text of the toolbar's time display, as characters; <<>> until the toolbar writes it
    formatArg,        \* history: the seconds formatTime was last given, a fraction
    clipHeap,         \* the AudioClip objects made so far; an object is named by its index
    clipCounter,      \* part_001 clipCounter
    clipboard,        \* DAWApp.clipboard: the object clone() last returned, 0 for null
    cloneOf,          \* history: the object clone() was last called on, 0 before any call
    thrown,           \* an exception left the last stopAllSources() call made on its own
    cancelRun         \* history: the stopAllSources() calls made in a row, and what the first of them met

subscriberVars == <<onTimeUpdate, onPlayStateChange, registered>>
tempoVars == <<tempo, bpmInput, tempoArg>>

\* the state outside the transport and the track list
clipVars == <<editedClip, peaks>>
timelineVars == <<gridTime>>
displayVars == <<timeDisplay, formatArg>>
cloneVars == <<clipHeap, clipCounter, clipboard, cloneOf>>
cancelVars == <<thrown, cancelRun>>
appVars == <<subscriberVars, tempoVars, clipVars, timelineVars, displayVars, cloneVars,
             cancelVars>>

\* the engine's fields and the histories of the transport
transportVars == <<audioContext, created, now, resumeWaiter, micro, isPlaying, isPaused,
                   startTime, pauseTime, currentTime, tracks, trackCounter,
                   activeSources, animationFrameId, framePending, leakedFrames,
                   posAtPause, seekPos, playInvoked>>


vars == <<audioContext, created, now, resumeWaiter, micro, isPlaying, isPaused, startTime,
          pauseTime, currentTime, tracks, trackCounter, activeSources,
          animationFrameId, framePending, leakedFrames, posNotes, stateNotes,
          lastOp, posAtPause, seekPos, playInvoked, appVars>>

-----------------------------------------------------------------------------
(* Bounds *)
MaxNow == 2
MaxTracks == 3
MaxClipObjects == 2
MaxListLen == 2

(* Program constants *)
DefaultTracks == 2
DefaultVolume == 80
DefaultTempo == 1200
MinTempo == 200
MaxTempo == 3000

(* Inputs *)
SeekTimes == {-1, 0, 3}
Volumes == {0, 80}
ClipMenu ==
    { [id |-> 1, trackId |-> 0, startTime |-> 2, offset |-> 0, duration |-> 3],
      [id |-> 2, trackId |-> 0, startTime |-> 0, offset |-> 1, duration |-> 2] }

\* the BPM values given: numbers in tenths of a BPM, NaN, and values that are
\* not numbers: the strings 'abc' and '', and undefined
NumericBpms == {-50, 0, 199, 200, 1205, 2990, 3000, 3001}

\* the clips of the clip editing specification: one more, which starts where
\* clip 1 does, and the times a clip is dragged to
ClipMenu3 ==
    ClipMenu \cup { [id |-> 3, trackId |-> 0, startTime |-> 2, offset |-> 0, duration |-> 1] }
DragTimes == {-1, 1, 3}

NoCont == [kind |-> "none", id |-> 0]
Op(name, arg) == [op |-> name, arg |-> arg]

Max(a, b) == IF a >= b THEN a ELSE b
Min(a, b) == IF a <= b THEN a ELSE b

-----------------------------------------------------------------------------
(* Track.js *)

NewTrack(id) ==
    [id |-> id, volume |-> DefaultVolume, muted |-> FALSE, solo |-> FALSE,
     gain |-> DefaultVolume, clips |-> <<>>]

RECURSIVE InsertSorted(_, _)
InsertSorted(sorted, c) ==
    IF sorted = <<>> THEN <<c>>
    ELSE IF Head(sorted).startTime <= c.startTime
         THEN <<Head(sorted)>> \o InsertSorted(Tail(sorted), c)
         ELSE <<c>> \o sorted

RECURSIVE sortClips(_)
sortClips(clips) ==
    IF clips = <<>> THEN <<>>
    ELSE InsertSorted(sortClips(SubSeq(clips, 1, Len(clips) - 1)), clips[Len(clips)])

\* addClip without `this.sortClips()`
addClipUnsorted(track, clip) ==
    [track EXCEPT !.clips = Append(track.clips, [clip EXCEPT !.trackId = track.id])]

addClip(track, clip) ==
    [track EXCEPT !.clips = sortClips(Append(track.clips, [clip EXCEPT !.trackId = track.id]))]

\* Track.removeClip(clipId)
removeClip(track, clipId) ==
    LET found == { i \in 1..Len(track.clips) : track.clips[i].id = clipId }
        index == IF found = {} THEN -1
                 ELSE CHOOSE i \in found : \A k \in found : i <= k
    IN  IF index # -1
        THEN [track EXCEPT !.clips = SubSeq(@, 1, index - 1) \o SubSeq(@, index + 1, Len(@))]
        ELSE track

\* AudioClip.setStartTime(time)
setStartTime(clip, time) == [clip EXCEPT !.startTime = Max(0, time)]

setMuted(track, m) ==
    [track EXCEPT !.muted = m, !.gain = IF m THEN 0 ELSE track.volume]

setVolume(track, v) ==
    LET vol == Max(0, Min(100, v))
    IN [track EXCEPT !.volume = vol, !.gain = IF track.muted THEN 0 ELSE vol]

setSolo(track, s) == [track EXCEPT !.solo = s]

-----------------------------------------------------------------------------
(* TrackList.js *)

handleSoloLogic(ts) ==
    LET hasSolo == \E i \in 1..Len(ts) : ts[i].solo
    IN [i \in 1..Len(ts) |->
          [ts[i] EXCEPT !.gain =
              IF hasSolo
              THEN (IF ts[i].muted THEN 0 ELSE (IF ts[i].solo THEN ts[i].volume ELSE 0))
              ELSE (IF ts[i].muted THEN 0 ELSE ts[i].volume)]]

\* the handleSoloLogic of the second TrackList class of the file
handleSoloLogic2(ts) ==
    LET hasSolo == \E i \in 1..Len(ts) : ts[i].solo
    IN [i \in 1..Len(ts) |->
          [ts[i] EXCEPT !.gain =
              IF hasSolo
              THEN (IF ts[i].solo THEN ts[i].volume ELSE 0)
              ELSE (IF ts[i].muted THEN 0 ELSE ts[i].volume)]]

\* AudioEngine.removeTrack: tracks.splice(index, 1)
removeTrack(ts, i) == SubSeq(ts, 1, i - 1) \o SubSeq(ts, i + 1, Len(ts))

-----------------------------------------------------------------------------
(* JavaScript values and the conversions the tempo code applies to them *)

Num(v) == [t |-> "num", v |-> v]
NaN == [t |-> "nan", v |-> 0]
NotANumber(kind) == [t |-> kind, v |-> 0]
NoValue == [t |-> "none", v |-> 0]

BpmInputs ==
    {Num(v) : v \in NumericBpms} \cup {NaN} \cup
    {NotANumber(k) : k \in {"abc", "empty", "undefined"}}

\* ToNumber: '' is 0; 'abc' and undefined are NaN
ToNumber(x) ==
    IF x.t = "num" THEN x ELSE IF x.t = "empty" THEN Num(0) ELSE NaN

MathMin(a, b) ==
    LET x == ToNumber(a)
        y == ToNumber(b)
    IN IF x.t = "nan" \/ y.t = "nan" THEN NaN ELSE Num(Min(x.v, y.v))

MathMax(a, b) ==
    LET x == ToNumber(a)
        y == ToNumber(b)
    IN IF x.t = "nan" \/ y.t = "nan" THEN NaN ELSE Num(Max(x.v, y.v))

\* parseInt(x, 10): the integer part of a number or of its text; NaN for
\* every other value, '' included
parseInt(x) ==
    IF x.t = "num"
    THEN Num(IF x.v >= 0 THEN (x.v \div 10) * 10 ELSE 0 - (((0 - x.v) \div 10) * 10))
    ELSE NaN

\* x + d for a number x or null (taken as 120 by `currentValue ?? 120`)
Plus(x, d) == IF x.t = "nan" THEN NaN ELSE Num(x.v + d)

-----------------------------------------------------------------------------
(* AudioEngine.setTempo and the toolbar's BPM handlers *)

\* setTempo without its upper limit
setTempoNoUpper(bpm) == MathMax(Num(MinTempo), bpm)

\* the tempo AudioEngine.setTempo(bpm) leaves
setTempo(bpm) == MathMax(Num(MinTempo), MathMin(Num(MaxTempo), bpm))

\* Toolbar.validateAndClampBpm: NoValue is null
validateAndClampBpm(value) ==
    LET bpm == parseInt(value)
    IN IF bpm.t = "nan" THEN NoValue
       ELSE MathMax(Num(MinTempo), MathMin(Num(MaxTempo), bpm))

-----------------------------------------------------------------------------
(* The callbacks of the engine and the listeners chained on them *)

\* a listener that overwrites the callback without calling the previous one
WrapReplacing(prev, listener) == <<listener>>

\* `const prev = audioEngine.onX; audioEngine.onX = (v) => { if (prev) prev(v);
\* this.listener(v); }`: the new callback runs the previous one, then the listener
Wrap(prev, listener) == Append(prev, listener)

\* `if (this.onX) this.onX(v)` for each v of notes: the calls the engine makes
Notify(callback, notes) == IF callback = <<>> THEN <<>> ELSE notes

\* the listener calls that the engine's calls notes of callback run, in order
ListenerCalls(callback, notes) ==
    [k \in 1..(Len(notes) * Len(callback)) |->
        [to |-> callback[((k - 1) % Len(callback)) + 1],
         value |-> notes[((k - 1) \div Len(callback)) + 1]]]

-----------------------------------------------------------------------------
(* AudioEngine.js: scheduling *)

\* stopAllSources that stops nothing and keeps the list
stopAllSourcesKeep(sources) == sources

\* AudioEngine.stopAllSources(): every source stopped, the list emptied
stopAllSources(sources) == <<>>

ClipNotPast(clip, P) == ~(clip.startTime + clip.duration < P)

\* every source started at once, whatever the clip's place on the timeline
ClipWhenImmediate(clip, D, P) == D

ClipWhen(clip, D, P) ==
    IF clip.startTime >= P THEN D + (clip.startTime - P) ELSE D

\* the offset into an already started clip without the clip's own offset
ClipOffsetNoBase(clip, P) ==
    IF clip.startTime >= P THEN clip.offset ELSE P - clip.startTime

ClipOffset(clip, P) ==
    IF clip.startTime >= P THEN clip.offset ELSE clip.offset + (P - clip.startTime)

\* the whole clip played however far into it the position is
ClipDurationFull(clip, P) == clip.duration

\* `clip.duration - (offset - (clip.offset || 0))`
ClipDuration(clip, P) == clip.duration - (ClipOffset(clip, P) - clip.offset)

\* `duration >= 0` for `duration > 0`
SourceStartedAtZero(clip, P) == ClipDuration(clip, P) >= 0

SourceStarted(clip, P) == ClipDuration(clip, P) > 0

\* schedulePlayback without `if (track.muted) return`
TrackScheduledAlways(track) == TRUE

TrackScheduled(track) == ~track.muted

ClipSources(track, D, P) ==
    LET live == SelectSeq(track.clips,
                          LAMBDA c : ClipNotPast(c, P) /\ SourceStarted(c, P))
    IN [i \in 1..Len(live) |->
          [track |-> track.id, clip |-> live[i].id,
           when |-> ClipWhen(live[i], D, P),
           offset |-> ClipOffset(live[i], P),
           duration |-> ClipDuration(live[i], P),
           stale |-> FALSE]]

RECURSIVE TracksSources(_, _, _)
TracksSources(ts, D, P) ==
    IF ts = <<>> THEN <<>>
    ELSE (IF TrackScheduled(Head(ts)) THEN ClipSources(Head(ts), D, P) ELSE <<>>)
         \o TracksSources(Tail(ts), D, P)

MarkStale(sources) == [i \in 1..Len(sources) |-> [sources[i] EXCEPT !.stale = TRUE]]

\* schedulePlayback without its leading stopAllSources()
schedulePlaybackNoCancel(sources, ts, D, epoch) ==
    MarkStale(sources) \o TracksSources(ts, D, D - epoch)

\* schedulePlayback with the device clock at D and the epoch at epoch
schedulePlayback(sources, ts, D, epoch) ==
    MarkStale(stopAllSources(sources)) \o TracksSources(ts, D, D - epoch)


-----------------------------------------------------------------------------
(* AudioEngine.js: init() *)

\* an init() that never finds a context
ContextMissingAlways(ctx) == TRUE

\* `if (this.audioContext) return;` does not return
ContextMissing(ctx) == ctx = "none"

\* the context and the master gain node that init() makes
Create == created' = [context |-> created.context + 1,
                      masterGain |-> created.masterGain + 1]

\* `await this.init()` made by a call that continues as k: the call that
\* creates a suspended context waits for resume(); every other call
\* continues in a microtask.
AwaitInit(k) ==
    IF ContextMissing(audioContext)
    THEN \E s \in {"suspended", "running"} :
            /\ audioContext' = s
            /\ Create
            /\ IF s = "suspended"
               THEN resumeWaiter' = k /\ micro' = NoCont
               ELSE micro' = k /\ UNCHANGED resumeWaiter
    ELSE /\ micro' = k
         /\ UNCHANGED <<audioContext, created, resumeWaiter>>

\* `this.init().catch(...)`: the caller does not wait
FireInit ==
    IF ContextMissing(audioContext)
    THEN \E s \in {"suspended", "running"} :
            /\ audioContext' = s
            /\ Create
            /\ resumeWaiter' = IF s = "suspended" THEN [kind |-> "seek", id |-> 0]
                               ELSE resumeWaiter
    ELSE UNCHANGED <<audioContext, created, resumeWaiter>>

-----------------------------------------------------------------------------
(* AudioEngine.js: the notification loop *)

\* stopTimeUpdate()
StopTimeUpdate ==
    /\ animationFrameId' = FALSE
    /\ framePending' = IF animationFrameId THEN FALSE ELSE framePending
    /\ UNCHANGED leakedFrames

-----------------------------------------------------------------------------
(* AudioEngine.js: transport *)

\* play() without its isPaused branch: always from the cursor
ResumeEpochFromCursor(paused, D, pauseT, curT) == D - curT

\* the epoch play() sets: resume from the paused position, or from the cursor
ResumeEpoch(paused, D, pauseT, curT) ==
    IF paused THEN D - pauseT ELSE D - curT

\* play() after `await this.init()`
PlayBody ==
    /\ startTime' = ResumeEpoch(isPaused, now, pauseTime, currentTime)
    /\ isPaused' = FALSE
    /\ isPlaying' = TRUE
    /\ activeSources' = schedulePlayback(activeSources, tracks, now, startTime')
    \* startTimeUpdate(): the first update() runs at once
    /\ currentTime' = now - startTime'
    /\ animationFrameId' = TRUE
    /\ framePending' = TRUE
    /\ leakedFrames' = IF framePending THEN leakedFrames + 1 ELSE leakedFrames
    /\ posNotes' = Notify(onTimeUpdate, <<currentTime'>>)
    /\ stateNotes' = Notify(onPlayStateChange, <<"playing">>)
    /\ lastOp' = Op("play", posAtPause)
    /\ posAtPause' = -1
    /\ seekPos' = -1
    /\ UNCHANGED <<now, pauseTime, tracks, trackCounter, playInvoked, appVars>>

\* addTrack(track) after `await this.init()`
AddTrackBody(id) ==
    /\ tracks' = Append(tracks, NewTrack(id))
    /\ posNotes' = <<>>
    /\ stateNotes' = <<>>
    /\ lastOp' = Op("addTrack", 0)
    /\ UNCHANGED <<now, isPlaying, isPaused, startTime, pauseTime, currentTime,
                   trackCounter, activeSources, animationFrameId, framePending,
                   leakedFrames, posAtPause, seekPos, playInvoked, appVars>>

\* a continuation with nothing left to do (seekTo does not wait for init)
NoBody ==
    /\ posNotes' = <<>>
    /\ stateNotes' = <<>>
    /\ lastOp' = Op("other", 0)
    /\ UNCHANGED <<now, isPlaying, isPaused, startTime, pauseTime, currentTime,
                   tracks, trackCounter, activeSources, animationFrameId,
                   framePending, leakedFrames, posAtPause, seekPos, playInvoked, appVars>>

RunCont(k) ==
    CASE k.kind = "play" -> PlayBody
      [] k.kind = "addTrack" -> AddTrackBody(k.id)
      [] OTHER -> NoBody

Idle == micro = NoCont

\* play() without its first line
AlreadyPlayingIgnored(playing, paused) == FALSE

\* the test play() returns on: `this.isPlaying && !this.isPaused`
AlreadyPlaying(playing, paused) == playing /\ ~paused

\* play() up to `await this.init()`
Play ==
    /\ Idle
    /\ IF AlreadyPlaying(isPlaying, isPaused)
       THEN /\ lastOp' = Op("playNoop", 0)
            /\ UNCHANGED <<audioContext, created, resumeWaiter, micro>>
       ELSE /\ lastOp' = Op("playCall", 0)
            /\ AwaitInit([kind |-> "play", id |-> 0])
    /\ playInvoked' = TRUE
    /\ posNotes' = <<>>
    /\ stateNotes' = <<>>
    /\ UNCHANGED <<now, isPlaying, isPaused, startTime, pauseTime, currentTime,
                   tracks, trackCounter, activeSources, animationFrameId,
                   framePending, leakedFrames, posAtPause, seekPos, appVars>>

\* the microtask queued by `await this.init()` runs before any other handler
Microtask ==
    /\ micro # NoCont
    /\ RunCont(micro)
    /\ micro' = NoCont
    /\ UNCHANGED <<audioContext, created, resumeWaiter>>

\* audioContext.resume() resolves: init() returns and its caller continues
ResumeDone ==
    /\ Idle
    /\ audioContext = "suspended"
    /\ audioContext' = "running"
    /\ RunCont(resumeWaiter)
    /\ resumeWaiter' = NoCont
    /\ UNCHANGED <<micro, created>>

\* pause() without its onPlayStateChange call
PauseStateNotesNone == <<>>

\* the onPlayStateChange calls pause() makes
PauseStateNotes == <<"paused">>

\* pause() returning only when nothing was ever played
NotPlayingOnlyStopped(playing, paused) == ~playing

\* the test pause() returns on: `!this.isPlaying || this.isPaused`
NotPlaying(playing, paused) == ~playing \/ paused

Pause ==
    /\ Idle
    /\ IF NotPlaying(isPlaying, isPaused)
       THEN /\ lastOp' = Op("pauseNoop", 0)
            /\ posNotes' = <<>>
            /\ stateNotes' = <<>>
            /\ UNCHANGED <<isPaused, pauseTime, activeSources, animationFrameId,
                           framePending, leakedFrames, posAtPause, seekPos>>
       ELSE /\ isPaused' = TRUE
            /\ pauseTime' = now - startTime
            /\ activeSources' = stopAllSources(activeSources)
            /\ StopTimeUpdate
            /\ posNotes' = <<>>
            /\ stateNotes' = Notify(onPlayStateChange, PauseStateNotes)
            /\ lastOp' = Op("pause", 0)
            /\ posAtPause' = now - startTime
            /\ seekPos' = -1
    /\ playInvoked' = FALSE
    /\ UNCHANGED <<audioContext, created, now, resumeWaiter, micro, isPlaying, startTime,
                   currentTime, tracks, trackCounter, appVars>>

\* stop() notifying only when the cursor moves
StopPosNotesOnChange(cursor) == IF cursor = 0 THEN <<>> ELSE <<0>>

\* the onTimeUpdate calls stop() makes
StopPosNotes(cursor) == <<0>>

StateCode == IF ~isPlaying THEN 0 ELSE IF ~isPaused THEN 1 ELSE 2

Stop ==
    /\ Idle
    /\ isPlaying' = FALSE
    /\ isPaused' = FALSE
    /\ currentTime' = 0
    /\ pauseTime' = 0
    /\ activeSources' = stopAllSources(activeSources)
    /\ StopTimeUpdate
    /\ posNotes' = Notify(onTimeUpdate, StopPosNotes(currentTime))
    /\ stateNotes' = Notify(onPlayStateChange, <<"stopped">>)
    /\ lastOp' = Op("stop", StateCode)
    /\ posAtPause' = -1
    /\ seekPos' = -1
    /\ playInvoked' = FALSE
    /\ UNCHANGED <<audioContext, created, now, resumeWaiter, micro, startTime, tracks,
                   trackCounter, appVars>>

\* seekTo without Math.max(0, time)
SeekTargetUnclamped(time) == time

\* the position seekTo(time) moves the cursor to
SeekTarget(time) == Max(0, time)

\* seekTo without `this.pauseTime = this.currentTime`
SeekPauseTimeKept(target, oldPauseTime) == oldPauseTime

\* the paused-at value seekTo leaves
SeekPauseTime(target, oldPauseTime) == target

\* seekTo without its branch for an engine that has no context
SeekWithoutContextNever(ctx) == FALSE

\* `if (!this.audioContext)` in seekTo
SeekWithoutContext(ctx) == ctx = "none"

seekTo(time) ==
    LET wasPlaying == isPlaying /\ ~isPaused
    IN /\ Idle
       /\ currentTime' = SeekTarget(time)
       /\ pauseTime' = SeekPauseTime(currentTime', pauseTime)
       /\ posNotes' = Notify(onTimeUpdate, <<currentTime'>>)
       /\ stateNotes' = <<>>
       /\ lastOp' = Op("seek", time)
       /\ posAtPause' = -1
       /\ seekPos' = IF wasPlaying THEN -1 ELSE (IF time < 0 THEN 0 ELSE time)
       /\ IF SeekWithoutContext(audioContext)
          THEN /\ FireInit
               /\ activeSources' = IF wasPlaying THEN stopAllSources(activeSources)
                                   ELSE activeSources
               /\ UNCHANGED startTime
          ELSE /\ startTime' = now - currentTime'
               /\ activeSources' =
                     IF wasPlaying
                     THEN schedulePlayback(stopAllSources(activeSources), tracks, now, startTime')
                     ELSE activeSources
               /\ UNCHANGED <<audioContext, created, resumeWaiter>>
       /\ UNCHANGED <<now, micro, isPlaying, isPaused, tracks, trackCounter,
                      animationFrameId, framePending, leakedFrames, playInvoked, appVars>>

Seek == \E t \in SeekTimes : seekTo(t)

\* the frame callback `update` of startTimeUpdate
Update(fromLeak) ==
    /\ Idle
    /\ IF fromLeak THEN leakedFrames > 0 ELSE framePending
    /\ IF ~isPlaying \/ isPaused
       THEN /\ framePending' = IF fromLeak THEN framePending ELSE FALSE
            /\ leakedFrames' = IF fromLeak THEN leakedFrames - 1 ELSE leakedFrames
            /\ posNotes' = <<>>
            /\ UNCHANGED <<currentTime, animationFrameId>>
       ELSE /\ currentTime' = now - startTime
            /\ posNotes' = Notify(onTimeUpdate, <<currentTime'>>)
            /\ animationFrameId' = TRUE
            /\ framePending' = TRUE
            /\ leakedFrames' = IF fromLeak /\ ~framePending THEN leakedFrames - 1
                               ELSE leakedFrames
    /\ stateNotes' = <<>>
    /\ lastOp' = Op("other", 0)
    /\ UNCHANGED <<audioContext, created, now, resumeWaiter, micro, isPlaying, isPaused,
                   startTime, pauseTime, tracks, trackCounter, activeSources,
                   posAtPause, seekPos, playInvoked, appVars>>

Frame == \E fromLeak \in BOOLEAN : Update(fromLeak)

\* the device clock advances while the context runs
Tick ==
    /\ Idle
    /\ audioContext = "running"
    /\ now < MaxNow
    /\ now' = now + 1
    /\ posNotes' = <<>>
    /\ stateNotes' = <<>>
    /\ lastOp' = Op("other", 0)
    /\ UNCHANGED <<audioContext, created, resumeWaiter, micro, isPlaying, isPaused,
                   startTime, pauseTime, currentTime, tracks, trackCounter,
                   activeSources, animationFrameId, framePending, leakedFrames,
                   posAtPause, seekPos, playInvoked, appVars>>

-----------------------------------------------------------------------------
(* TrackList.js and the import handlers: edits of the timeline model *)

OnTimeline(ts, id) ==
    \E i \in 1..Len(ts) : \E j \in 1..Len(ts[i].clips) : ts[i].clips[j].id = id

\* TrackList.addNewTrack(), called for each default track of the application,
\* up to `await this.init()` in AudioEngine.addTrack
AddTrack ==
    /\ Idle
    /\ trackCounter < DefaultTracks
    /\ trackCounter' = trackCounter + 1
    /\ AwaitInit([kind |-> "addTrack", id |-> trackCounter'])
    /\ posNotes' = <<>>
    /\ stateNotes' = <<>>
    /\ lastOp' = Op("other", 0)
    /\ UNCHANGED <<now, isPlaying, isPaused, startTime, pauseTime, currentTime,
                   tracks, activeSources, animationFrameId, framePending,
                   leakedFrames, posAtPause, seekPos, playInvoked, appVars>>

ModelEdit(ts, name, arg) ==
    /\ Idle
    /\ tracks' = ts
    /\ posNotes' = <<>>
    /\ stateNotes' = <<>>
    /\ lastOp' = Op(name, arg)
    /\ UNCHANGED <<audioContext, created, now, resumeWaiter, micro, isPlaying, isPaused,
                   startTime, pauseTime, currentTime, trackCounter, activeSources,
                   animationFrameId, framePending, leakedFrames, posAtPause, seekPos, playInvoked, appVars>>

\* importAudioFilesToTrack: track.addClip(clip) for a decoded file
AddClip ==
    \E i \in 1..Len(tracks) : \E c \in ClipMenu :
        /\ ~OnTimeline(tracks, c.id)
        /\ ModelEdit([tracks EXCEPT ![i] = addClip(@, c)], "other", 0)

\* the mute button of a track
ToggleMute ==
    \E i \in 1..Len(tracks) :
        ModelEdit(handleSoloLogic([tracks EXCEPT ![i] = setMuted(@, ~@.muted)]),
                  "mute", 0)

\* the solo button of a track
ToggleSolo ==
    \E i \in 1..Len(tracks) :
        ModelEdit(handleSoloLogic([tracks EXCEPT ![i] = setSolo(@, ~@.solo)]),
                  "solo", 0)

\* the volume slider of a track, or its mixer fader
SetVolume ==
    \E i \in 1..Len(tracks) : \E v \in Volumes :
        /\ v # tracks[i].volume
        /\ ModelEdit([tracks EXCEPT ![i] = setVolume(@, v)], "volume", tracks[i].id)

\* the add-track button: addNewTrack() up to `await this.init()`
AddTrackClick ==
    /\ Idle
    /\ trackCounter < MaxTracks
    /\ trackCounter' = trackCounter + 1
    /\ AwaitInit([kind |-> "addTrack", id |-> trackCounter'])
    /\ posNotes' = <<>>
    /\ stateNotes' = <<>>
    /\ lastOp' = Op("other", 0)
    /\ UNCHANGED <<now, isPlaying, isPaused, startTime, pauseTime, currentTime,
                   tracks, activeSources, animationFrameId, framePending,
                   leakedFrames, posAtPause, seekPos, playInvoked, appVars>>

\* DAWApp.deleteTrack, which keeps one track, with TrackList.removeTrack
RemoveTrack ==
    \E i \in 1..Len(tracks) :
        /\ Len(tracks) > 1
        /\ ModelEdit(handleSoloLogic(removeTrack(tracks, i)), "removeTrack", 0)

\* the mute button, the solo button and removeTrack of the second TrackList
\* class of the file
ToggleMute2 ==
    \E i \in 1..Len(tracks) :
        ModelEdit(handleSoloLogic2([tracks EXCEPT ![i] = setMuted(@, ~@.muted)]),
                  "mute", 0)

ToggleSolo2 ==
    \E i \in 1..Len(tracks) :
        ModelEdit(handleSoloLogic2([tracks EXCEPT ![i] = setSolo(@, ~@.solo)]),
                  "solo", 0)

RemoveTrack2 ==
    \E i \in 1..Len(tracks) :
        /\ Len(tracks) > 1
        /\ ModelEdit(removeTrack(tracks, i), "removeTrack", 0)

-----------------------------------------------------------------------------
-----------------------------------------------------------------------------
(* Toolbar and Timeline: subscribing to the engine's callbacks *)

Subscribe(time, state) ==
    /\ Idle
    /\ onTimeUpdate' = time
    /\ onPlayStateChange' = state
    /\ posNotes' = <<>>
    /\ stateNotes' = <<>>
    /\ lastOp' = Op("other", 0)
    /\ UNCHANGED <<audioContext, created, now, resumeWaiter, micro, isPlaying, isPaused,
                   startTime, pauseTime, currentTime, tracks, trackCounter,
                   activeSources, animationFrameId, framePending, leakedFrames,
                   posAtPause, seekPos, playInvoked, tempoVars, clipVars, timelineVars,
                   displayVars, cloneVars, cancelVars>>

\* Toolbar.init(): chains a listener on both callbacks
ToolbarInit ==
    /\ \A i \in 1..Len(registered.time) : registered.time[i] # "toolbar"
    /\ Subscribe(Wrap(onTimeUpdate, "toolbar"), Wrap(onPlayStateChange, "toolbar"))
    /\ registered' = [time |-> Append(registered.time, "toolbar"),
                      state |-> Append(registered.state, "toolbar")]

\* Timeline.init(): chains a listener on onTimeUpdate
TimelineInit ==
    /\ \A i \in 1..Len(registered.time) : registered.time[i] # "timeline"
    /\ Subscribe(Wrap(onTimeUpdate, "timeline"), onPlayStateChange)
    /\ registered' = [registered EXCEPT !.time = Append(@, "timeline")]

\* audioEngine.init() called on its own, up to its return or its await
InitCall ==
    /\ Idle
    /\ AwaitInit([kind |-> "init", id |-> 0])
    /\ posNotes' = <<>>
    /\ stateNotes' = <<>>
    /\ lastOp' = Op("init", 0)
    /\ UNCHANGED <<now, isPlaying, isPaused, startTime, pauseTime, currentTime,
                   tracks, trackCounter, activeSources, animationFrameId,
                   framePending, leakedFrames, posAtPause, seekPos, playInvoked,
                   appVars>>

-----------------------------------------------------------------------------
(* Timeline and the import handlers: clips added, dragged, moved, deleted *)

\* an import or paste handler: track.addClip(clip)
AddClipTo ==
    \E i \in 1..Len(tracks) : \E c \in ClipMenu3 :
        /\ ~OnTimeline(tracks, c.id)
        /\ ModelEdit([tracks EXCEPT ![i] = addClip(@, c)], "addClip", tracks[i].id)

\* a clip is dragged along its track: clip.setStartTime(newTime), and the
\* track's list is left as it is
DragClip ==
    \E i \in 1..Len(tracks) : \E j \in 1..Len(tracks[i].clips) : \E t \in DragTimes :
        /\ tracks[i].clips[j].startTime # Max(0, t)
        /\ ModelEdit([tracks EXCEPT ![i].clips[j] = setStartTime(@, t)], "other", 0)

\* Timeline.moveClipToTrack(clip, fromTrackId, toTrackId)
MoveClipToTrack ==
    \E i, n \in 1..Len(tracks) : \E j \in 1..Len(tracks[i].clips) :
        LET clip == tracks[i].clips[j]
            removed == [tracks EXCEPT ![i] = removeClip(@, clip.id)]
        IN /\ i # n
           /\ ModelEdit([removed EXCEPT ![n] = addClip(@, clip)], "addClip", tracks[n].id)

\* the delete entry of a clip's menu: track.removeClip(clip.id)
DeleteClip ==
    \E i \in 1..Len(tracks) : \E j \in 1..Len(tracks[i].clips) :
        ModelEdit([tracks EXCEPT ![i] = removeClip(@, tracks[i].clips[j].id)], "other", 0)

-----------------------------------------------------------------------------
(* AudioClip: a clip on its own. Times are in hundredths of a second. *)

\* the shortest duration setDuration gives a clip: 0.1 s
MinDuration == 10

\* an AudioBuffer: its duration and the samples of channel 0; a clip built
\* without one holds null, which is NoBuffer
Buffer(duration, channelData) ==
    [present |-> TRUE, duration |-> duration, channelData |-> channelData]
NoBuffer == [present |-> FALSE, duration |-> 0, channelData |-> <<>>]

\* the options of the constructor; 0 is also what an absent option reads as
\* under `||`
Options(offset, duration) == [offset |-> offset, duration |-> duration]
NoOptions == Options(0, 0)

\* AudioClip.getOriginalDuration()
getOriginalDuration(c) == IF c.audioBuffer.present THEN c.audioBuffer.duration ELSE 0

\* new AudioClip(audioBuffer, options); waveformData null is <<>>
AudioClip(audioBuffer, options) ==
    [audioBuffer |-> audioBuffer,
     offset |-> options.offset,
     duration |-> IF options.duration # 0 THEN options.duration
                  ELSE IF audioBuffer.present THEN audioBuffer.duration ELSE 0,
     waveformData |-> <<>>]

\* AudioClip.setDuration(duration)
setDuration(c, duration) ==
    LET maxDuration == getOriginalDuration(c) - c.offset
    IN [c EXCEPT !.duration = Max(MinDuration, Min(maxDuration, duration))]

\* the buffers, options and durations of the duration specification
DurationBuffers == {NoBuffer} \cup { Buffer(d, <<>>) : d \in {5, 10, 30, 50} }
DurationOptions == { Options(o, d) : o \in {0, 5, 25}, d \in {0, 20} }
Durations == {-10, 5, 10, 15, 20, 30, 100}

\* an operation on the clip alone
ClipEdit(c, result, name, arg) ==
    /\ Idle
    /\ editedClip' = c
    /\ peaks' = result
    /\ posNotes' = <<>>
    /\ stateNotes' = <<>>
    /\ lastOp' = Op(name, arg)
    /\ UNCHANGED <<transportVars, subscriberVars, tempoVars, timelineVars, displayVars,
                   cloneVars, cancelVars>>

\* clip.setDuration(d)
SetDuration == \E d \in Durations : ClipEdit(setDuration(editedClip, d), peaks, "setDuration", d)

\* Math.abs
Abs(x) == IF x < 0 THEN -x ELSE x

\* the inner loop of generateWaveformData: the largest |channelData[j]| for
\* start <= j < end (indices from 0), starting from max = 0
WindowMax(channelData, start, end) ==
    LET magnitudes == { Abs(channelData[j + 1]) : j \in start..(end - 1) }
    IN IF magnitudes = {} THEN 0
       ELSE CHOOSE m \in magnitudes : \A v \in magnitudes : v <= m

\* AudioClip.generateWaveformData(samples): the clip afterwards and the array
\* returned. Without a buffer the zero-filled array is returned and not kept.
generateWaveformData(c, samples) ==
    IF ~c.audioBuffer.present
    THEN [clip |-> c, result |-> [i \in 1..samples |-> 0]]
    ELSE LET channelData == c.audioBuffer.channelData
             totalSamples == Len(channelData)
             samplesPerPoint == totalSamples \div samples
             waveform == [i \in 1..samples |->
                            LET start == (i - 1) * samplesPerPoint
                                end == Min(start + samplesPerPoint, totalSamples)
                            IN WindowMax(channelData, start, end)]
         IN [clip |-> [c EXCEPT !.waveformData = waveform], result |-> waveform]

\* AudioClip.getWaveformData(samples)
getWaveformData(c, samples) ==
    IF c.waveformData = <<>> \/ Len(c.waveformData) # samples
    THEN generateWaveformData(c, samples)
    ELSE [clip |-> c, result |-> c.waveformData]

\* the sample values, the buffers and the point counts of the waveform
\* specification
SampleValues == {-2, 0, 1}
ChannelLengths == 0..4
WaveformBuffers ==
    {NoBuffer} \cup
    { Buffer(Len(d), d) : d \in UNION { [1..k -> SampleValues] : k \in ChannelLengths } }
SampleCounts == 1..3

\* clip.getWaveformData(n)
GetWaveformData ==
    \E n \in SampleCounts :
        LET r == getWaveformData(editedClip, n)
        IN ClipEdit(r.clip, r.result, "getWaveformData", n)

-----------------------------------------------------------------------------
(* AudioClip objects: construction, clone(), and the clipboard *)

\* the options of the constructor with a name and a start time; '' is also
\* what an absent name reads as under `||`
ClipOptions(name, start, offset, duration) ==
    [name |-> name, startTime |-> start, offset |-> offset, duration |-> duration]

\* clip.trackId null
NoTrackId == 0

\* new AudioClip({audioBuffer, ...options}) when Date.now() reads ms and
\* ++clipCounter gives counter
NewAudioClip(audioBuffer, options, ms, counter) ==
    [id |-> [ms |-> ms, n |-> counter],
     name |-> IF options.name = "" THEN "Audio Clip" ELSE options.name,
     trackId |-> NoTrackId,
     startTime |-> options.startTime]
        @@ AudioClip(audioBuffer, Options(options.offset, options.duration))

\* the heap after `new AudioClip(...)` and the object made
Construct(heap, audioBuffer, options, ms, counter) ==
    [heap |-> Append(heap, NewAudioClip(audioBuffer, options, ms, counter)),
     ref |-> Len(heap) + 1]

\* clone() handing back the clip it was called on
cloneShared(heap, ref, ms, counter) == [heap |-> heap, ref |-> ref]

\* AudioClip.clone() called on the object ref
clone(heap, ref, ms, counter) ==
    Construct(heap, heap[ref].audioBuffer,
              ClipOptions(heap[ref].name, heap[ref].startTime, heap[ref].offset,
                          heap[ref].duration),
              ms, counter)

\* AudioClip.move(deltaTime)
move(c, deltaTime) == setStartTime(c, c.startTime + deltaTime)

\* the files imported, the readings of Date.now(), and the arguments of the
\* setters
ImportMenu ==
    { [audioBuffer |-> NoBuffer, options |-> ClipOptions("", 0, 0, 0)],
      [audioBuffer |-> Buffer(30, <<>>), options |-> ClipOptions("kick", 50, 5, 20)] }
Millis == {1, 2}
StartTimes == {70}
MoveDeltas == {-30}
CloneDurations == {5}

\* an operation on the clip objects
ObjectEdit(heap, counter, board, original, name, arg) ==
    /\ Idle
    /\ clipHeap' = heap
    /\ clipCounter' = counter
    /\ clipboard' = board
    /\ cloneOf' = original
    /\ posNotes' = <<>>
    /\ stateNotes' = <<>>
    /\ lastOp' = Op(name, arg)
    /\ UNCHANGED <<transportVars, subscriberVars, tempoVars, clipVars, timelineVars,
                   displayVars, cancelVars>>

\* DAWApp.importAudioFiles: new AudioClip(...), then targetTrack.addClip(clip),
\* which sets clip.trackId
ImportClip ==
    \E file \in ImportMenu : \E ms \in Millis :
        LET made == Construct(clipHeap, file.audioBuffer, file.options, ms, clipCounter + 1)
        IN /\ Len(clipHeap) < MaxClipObjects
           /\ ObjectEdit([made.heap EXCEPT ![made.ref].trackId = 1], clipCounter + 1,
                         clipboard, cloneOf, "import", made.ref)

\* DAWApp.copySelectedClip: this.clipboard = selectedClip.clone(); also the
\* clone() of paste and duplicate, whose result the next steps work on
CloneClip ==
    \E ref \in 1..Len(clipHeap) : \E ms \in Millis :
        LET made == clone(clipHeap, ref, ms, clipCounter + 1)
        IN /\ Len(clipHeap) < MaxClipObjects
           /\ ObjectEdit(made.heap, clipCounter + 1, made.ref, ref, "clone", ref)

\* the original and the copy of the last clone()
ClonePair == IF cloneOf = 0 THEN {} ELSE {cloneOf, clipboard}

\* setStartTime, move or setDuration on the original or on the copy
SetStartTimeOn ==
    \E ref \in ClonePair : \E t \in StartTimes :
        ObjectEdit([clipHeap EXCEPT ![ref] = setStartTime(@, t)], clipCounter,
                   clipboard, cloneOf, "setStartTime", ref)

MoveOn ==
    \E ref \in ClonePair : \E d \in MoveDeltas :
        ObjectEdit([clipHeap EXCEPT ![ref] = move(@, d)], clipCounter,
                   clipboard, cloneOf, "move", ref)

SetDurationOn ==
    \E ref \in ClonePair : \E d \in CloneDurations :
        ObjectEdit([clipHeap EXCEPT ![ref] = setDuration(@, d)], clipCounter,
                   clipboard, cloneOf, "setDuration", ref)

-----------------------------------------------------------------------------
(* Timeline: the grid. A time is an exact fraction [n, d] of a second, in
   lowest terms with d > 0; 0/0 is NaN. *)

RECURSIVE GCD(_, _)
GCD(a, b) == IF b = 0 THEN a ELSE GCD(b, a % b)

Rat(n, d) ==
    IF d = 0 THEN [n |-> 0, d |-> 0]
    ELSE LET g == GCD(Abs(n), Abs(d))
             sign == IF d < 0 THEN -1 ELSE 1
         IN [n |-> sign * (n \div g), d |-> sign * (d \div g)]

NaNTime == Rat(0, 0)

\* x * y and x / y; NaN when an operand is NaN. No division by zero occurs:
\* the tempo is NaN or at least 20
RatMul(x, y) == Rat(x.n * y.n, x.d * y.d)
RatDiv(x, y) == Rat(x.n * y.d, x.d * y.n)

\* Math.round(x): the nearest integer, a half rounded up, as a fraction
MathRound(x) == IF x.d = 0 THEN NaNTime ELSE Rat((2 * x.n + x.d) \div (2 * x.d), 1)

\* audioEngine.tempo as a fraction: the model holds it in tenths of a BPM
TempoRat(x) == IF x.t = "num" THEN Rat(x.v, 10) ELSE NaNTime

\* Timeline.gridSize: a quarter of a beat
gridSize == Rat(1, 4)

\* snapTime dividing by the beat and multiplying by the grid step
snapTimeMixedUnits(time) ==
    LET secondsPerBeat == RatDiv(Rat(60, 1), TempoRat(tempo))
        snapInterval == RatMul(secondsPerBeat, gridSize)
    IN RatMul(MathRound(RatDiv(time, secondsPerBeat)), snapInterval)

\* Timeline.snapTime(time)
snapTime(time) ==
    LET secondsPerBeat == RatDiv(Rat(60, 1), TempoRat(tempo))
        snapInterval == RatMul(secondsPerBeat, gridSize)
    IN RatMul(MathRound(RatDiv(time, snapInterval)), snapInterval)

\* the times under the pointer: x / pixelsPerSecond in a click, dragStartTime
\* + deltaTime in a drag, which can be negative
PointerTimes ==
    { Rat(n, d) : n \in {-1, 0, 1, 3, 7}, d \in {1, 3, 16} }

\* a click on the ruler or a step of a drag with the grid on: snapTime(time)
SnapTime ==
    \E time \in PointerTimes :
        /\ Idle
        /\ gridTime' = snapTime(time)
        /\ posNotes' = <<>>
        /\ stateNotes' = <<>>
        /\ lastOp' = Op("snapTime", 0)
        /\ UNCHANGED <<transportVars, subscriberVars, tempoVars, clipVars, displayVars,
                       cloneVars, cancelVars>>

-----------------------------------------------------------------------------
(* AudioEngine.formatTime and the toolbar's time display. Numbers are exact
   fractions; a text is the sequence of its characters. *)

\* Math.floor(x)
MathFloor(x) == IF x.d = 0 THEN NaNTime ELSE Rat(x.n \div x.d, 1)

\* x + k for an integer k
RatPlus(x, k) == IF x.d = 0 THEN NaNTime ELSE Rat(x.n + k * x.d, x.d)

\* x % m for an integer m > 0: the remainder has the sign of x
RatRem(x, m) ==
    IF x.d = 0 THEN NaNTime
    ELSE LET q == IF x.n >= 0 THEN x.n \div (x.d * m) ELSE 0 - ((0 - x.n) \div (x.d * m))
         IN Rat(x.n - q * m * x.d, x.d)

DigitChars == <<"0", "1", "2", "3", "4", "5", "6", "7", "8", "9">>

RECURSIVE Digits(_)
Digits(n) ==
    IF n < 10 THEN <<DigitChars[n + 1]>>
    ELSE Digits(n \div 10) \o <<DigitChars[(n % 10) + 1]>>

\* String(x) for an integer or NaN
String(x) ==
    IF x.d = 0 THEN <<"N", "a", "N">>
    ELSE IF x.n < 0 THEN <<"-">> \o Digits(0 - x.n)
    ELSE Digits(x.n)

\* text.padStart(width, '0')
padStart(text, width) ==
    IF Len(text) >= width THEN text
    ELSE [i \in 1..(width - Len(text)) |-> "0"] \o text

\* AudioEngine.formatTime(seconds)
formatTime(seconds) ==
    LET beatsPerSecond == RatDiv(TempoRat(tempo), Rat(60, 1))
        totalBeats == RatMul(seconds, beatsPerSecond)
        bars == RatPlus(MathFloor(RatDiv(totalBeats, Rat(4, 1))), 1)
        beats == RatPlus(MathFloor(RatRem(totalBeats, 4)), 1)
        ticks == MathFloor(RatMul(RatRem(totalBeats, 1), Rat(1000, 1)))
    IN padStart(String(bars), 3) \o <<":">> \o padStart(String(beats), 2)
           \o <<":">> \o padStart(String(ticks), 3)

\* the positions the toolbar is given to display
DisplayTimes == { Rat(n, d) : n \in {0, 1, 2, 7, 1999}, d \in {1, 3, 8, 1000} }

\* Toolbar.updateTimeDisplay(time)
UpdateTimeDisplay ==
    \E time \in DisplayTimes :
        /\ Idle
        /\ timeDisplay' = formatTime(time)
        /\ formatArg' = time
        /\ posNotes' = <<>>
        /\ stateNotes' = <<>>
        /\ lastOp' = Op("formatTime", 0)
        /\ UNCHANGED <<transportVars, subscriberVars, tempoVars, clipVars, timelineVars,
                       cloneVars, cancelVars>>

-----------------------------------------------------------------------------
(* Toolbar: the tempo *)

WheelDeltas == {10, -10}

TempoEdit(t, field, arg, name) ==
    /\ Idle
    /\ tempo' = t
    /\ bpmInput' = field
    /\ tempoArg' = arg
    /\ posNotes' = <<>>
    /\ stateNotes' = <<>>
    /\ lastOp' = Op(name, 0)
    /\ UNCHANGED <<audioContext, created, now, resumeWaiter, micro, isPlaying, isPaused,
                   startTime, pauseTime, currentTime, tracks, trackCounter,
                   activeSources, animationFrameId, framePending, leakedFrames,
                   posAtPause, seekPos, playInvoked, subscriberVars, clipVars, timelineVars,
                   displayVars, cloneVars, cancelVars>>

\* audioEngine.setTempo(x) called directly
SetTempo ==
    \E x \in BpmInputs : TempoEdit(setTempo(x), bpmInput, x, "setTempo")

\* Toolbar.setBpm(x), the variant that validates
ToolbarSetBpm ==
    \E x \in BpmInputs :
        LET validatedBpm == validateAndClampBpm(x)
        IN IF validatedBpm = NoValue
           THEN TempoEdit(tempo, bpmInput, x, "setBpm")
           ELSE TempoEdit(setTempo(validatedBpm), validatedBpm, x, "setBpm")

\* Toolbar.setBpm(x) of src/ui/Toolbar.js
ToolbarSetBpm2 ==
    \E x \in BpmInputs : TempoEdit(setTempo(x), x, x, "setBpm")

\* the text x is typed into the BPM field: its change handler, the variant
\* that validates
BpmChange ==
    \E x \in BpmInputs :
        LET bpm == validateAndClampBpm(x)
        IN /\ x.t # "undefined"
           /\ IF bpm = NoValue
              THEN TempoEdit(tempo, x, x, "bpmChange")
              ELSE TempoEdit(setTempo(bpm), bpm, x, "bpmChange")

\* the change handler of src/ui/Toolbar.js
BpmChange2 ==
    \E x \in BpmInputs :
        LET bpm == parseInt(x)
        IN /\ x.t # "undefined"
           /\ IF bpm.t # "nan"
              THEN TempoEdit(setTempo(bpm), x, x, "bpmChange")
              ELSE TempoEdit(tempo, x, x, "bpmChange")

\* the wheel handler of the BPM field, the variant that validates
BpmWheel ==
    \E delta \in WheelDeltas :
        LET currentValue == validateAndClampBpm(bpmInput)
            nextValue == validateAndClampBpm(
                Plus(IF currentValue = NoValue THEN Num(DefaultTempo) ELSE currentValue,
                     delta))
        IN IF nextValue = NoValue
           THEN TempoEdit(tempo, bpmInput, bpmInput, "bpmWheel")
           ELSE TempoEdit(setTempo(nextValue), nextValue, bpmInput, "bpmWheel")

\* the wheel handler of src/ui/Toolbar.js
BpmWheel2 ==
    \E delta \in WheelDeltas :
        LET currentValue == parseInt(bpmInput)
            field == MathMax(Num(MinTempo), MathMin(Num(MaxTempo), Plus(currentValue, delta)))
        IN TempoEdit(setTempo(parseInt(field)), field, bpmInput, "bpmWheel")

-----------------------------------------------------------------------------
\* no clip has been made
NoClipObjects ==
    /\ clipHeap = <<>>
    /\ clipCounter = 0
    /\ clipboard = 0
    /\ cloneOf = 0

\* no stopAllSources() call was made on its own yet
NoCancelRun == [calls |-> 0, kinds |-> {}, caught |-> 0]

\* the engine as its constructor leaves it
InitEngine ==
    /\ audioContext = "none"
    /\ created = [context |-> 0, masterGain |-> 0]
    /\ now = 0
    /\ resumeWaiter = NoCont
    /\ micro = NoCont
    /\ isPlaying = FALSE
    /\ isPaused = FALSE
    /\ startTime = 0
    /\ pauseTime = 0
    /\ currentTime = 0
    /\ tracks = <<>>
    /\ trackCounter = 0
    /\ activeSources = <<>>
    /\ animationFrameId = FALSE
    /\ framePending = FALSE
    /\ leakedFrames = 0
    /\ posNotes = <<>>
    /\ stateNotes = <<>>
    /\ lastOp = Op("new", 0)
    /\ posAtPause = -1
    /\ seekPos = -1
    /\ playInvoked = FALSE
    /\ tempo = Num(DefaultTempo)
    /\ bpmInput = Num(DefaultTempo)
    /\ tempoArg = NoValue

\* DAWApp.init() has built the toolbar, then the timeline
Init ==
    /\ InitEngine
    /\ onTimeUpdate = Wrap(Wrap(<<>>, "toolbar"), "timeline")
    /\ onPlayStateChange = Wrap(<<>>, "toolbar")
    /\ registered = [time |-> <<"toolbar", "timeline">>, state |-> <<"toolbar">>]
    /\ editedClip = AudioClip(NoBuffer, NoOptions)
    /\ peaks = <<>>
    /\ gridTime = Rat(0, 1)
    /\ timeDisplay = <<>>
    /\ formatArg = Rat(0, 1)
    /\ NoClipObjects
    /\ thrown = FALSE
    /\ cancelRun = NoCancelRun

Next ==
    \/ Play
    \/ Microtask
    \/ ResumeDone
    \/ Pause
    \/ Stop
    \/ Seek
    \/ Frame
    \/ Tick
    \/ AddTrack
    \/ AddClip
    \/ ToggleMute
    \/ ToggleSolo

\* The transport with the mute and solo buttons
Spec == Init /\ [][Next]_vars

NextMix ==
    \/ Play
    \/ Microtask
    \/ ResumeDone
    \/ Stop
    \/ Seek
    \/ Tick
    \/ AddTrack
    \/ AddClip
    \/ ToggleMute
    \/ ToggleSolo
    \/ SetVolume

\* Scheduling under the whole mix state: mute, solo and the volume sliders
SpecMix == Init /\ [][NextMix]_vars

NextTrackList ==
    \/ AddTrackClick
    \/ Microtask
    \/ ResumeDone
    \/ ToggleMute
    \/ ToggleSolo
    \/ SetVolume
    \/ RemoveTrack

\* The track list alone: tracks added and removed, mute, solo and volume
SpecTrackList == Init /\ [][NextTrackList]_vars

NextTrackList2 ==
    \/ AddTrackClick
    \/ Microtask
    \/ ResumeDone
    \/ ToggleMute2
    \/ ToggleSolo2
    \/ SetVolume
    \/ RemoveTrack2

\* The track list alone, run by the second TrackList class of the file
SpecTrackList2 == Init /\ [][NextTrackList2]_vars

InitSubscribers ==
    /\ InitEngine
    /\ onTimeUpdate = <<>>
    /\ onPlayStateChange = <<>>
    /\ registered = [time |-> <<>>, state |-> <<>>]
    /\ editedClip = AudioClip(NoBuffer, NoOptions)
    /\ peaks = <<>>
    /\ gridTime = Rat(0, 1)
    /\ timeDisplay = <<>>
    /\ formatArg = Rat(0, 1)
    /\ NoClipObjects
    /\ thrown = FALSE
    /\ cancelRun = NoCancelRun

NextSubscribers ==
    \/ ToolbarInit
    \/ TimelineInit
    \/ Play
    \/ Microtask
    \/ ResumeDone
    \/ Pause
    \/ Stop
    \/ Seek
    \/ Frame
    \/ Tick

\* a clip as its constructor leaves it
InitDuration ==
    /\ InitEngine
    /\ onTimeUpdate = <<>>
    /\ onPlayStateChange = <<>>
    /\ registered = [time |-> <<>>, state |-> <<>>]
    /\ editedClip \in { AudioClip(b, o) : b \in DurationBuffers, o \in DurationOptions }
    /\ peaks = <<>>
    /\ gridTime = Rat(0, 1)
    /\ timeDisplay = <<>>
    /\ formatArg = Rat(0, 1)
    /\ NoClipObjects
    /\ thrown = FALSE
    /\ cancelRun = NoCancelRun

NextDuration == SetDuration

\* AudioClip.setDuration on every clip the constructor builds
SpecDuration == InitDuration /\ [][NextDuration]_vars

\* a clip over any of the buffers, nothing cached yet
InitWaveform ==
    /\ InitEngine
    /\ onTimeUpdate = <<>>
    /\ onPlayStateChange = <<>>
    /\ registered = [time |-> <<>>, state |-> <<>>]
    /\ editedClip \in { AudioClip(b, NoOptions) : b \in WaveformBuffers }
    /\ peaks = <<>>
    /\ gridTime = Rat(0, 1)
    /\ timeDisplay = <<>>
    /\ formatArg = Rat(0, 1)
    /\ NoClipObjects
    /\ thrown = FALSE
    /\ cancelRun = NoCancelRun

NextWaveform == GetWaveformData

\* AudioClip.getWaveformData called again and again with any point count
SpecWaveform == InitWaveform /\ [][NextWaveform]_vars

NextRemove ==
    \/ AddTrack
    \/ Microtask
    \/ ResumeDone
    \/ AddClip
    \/ Play
    \/ Stop
    \/ Tick
    \/ RemoveTrack
    \/ DeleteClip

\* The transport while tracks and clips are deleted
SpecRemove == Init /\ [][NextRemove]_vars

NextClone ==
    \/ ImportClip
    \/ CloneClip
    \/ SetStartTimeOn
    \/ MoveOn
    \/ SetDurationOn

\* Clip objects imported, cloned and edited
SpecClone == Init /\ [][NextClone]_vars

NextFormat ==
    \/ UpdateTimeDisplay
    \/ SetTempo
    \/ BpmChange

\* The toolbar's time display under every tempo the engine can be given
SpecFormat == Init /\ [][NextFormat]_vars

NextSnap ==
    \/ SnapTime
    \/ SetTempo
    \/ BpmChange

\* The timeline's grid under every tempo the engine can be given
SpecSnap == Init /\ [][NextSnap]_vars

NextClips ==
    \/ AddTrack
    \/ Microtask
    \/ ResumeDone
    \/ AddClipTo
    \/ DragClip
    \/ MoveClipToTrack
    \/ DeleteClip

\* The clip lists of the tracks under the editing operations of the timeline
SpecClips == Init /\ [][NextClips]_vars

NextInit ==
    \/ InitCall
    \/ Play
    \/ Microtask
    \/ ResumeDone
    \/ Pause
    \/ Stop
    \/ Seek
    \/ Tick
    \/ AddTrack

\* The transport with init() also called on its own
SpecInit == Init /\ [][NextInit]_vars

NextTempo ==
    \/ SetTempo
    \/ ToolbarSetBpm
    \/ BpmChange
    \/ BpmWheel

\* The tempo, set through the engine and through the toolbar
SpecTempo == Init /\ [][NextTempo]_vars

NextTempo2 ==
    \/ SetTempo
    \/ ToolbarSetBpm2
    \/ BpmChange2
    \/ BpmWheel2

\* The tempo, set through the engine and through the Toolbar class of
\* src/ui/Toolbar.js
SpecTempo2 == Init /\ [][NextTempo2]_vars

\* The transport of an engine on whose callbacks the toolbar and the timeline
\* subscribe at any time, in either order
SpecSubscribers == InitSubscribers /\ [][NextSubscribers]_vars

-----------------------------------------------------------------------------
(* Properties *)

Playing == isPlaying /\ ~isPaused
Paused == isPlaying /\ isPaused
Stopped == ~isPlaying

\* the logical position: deviceNow - epoch
Position == now - startTime

\* the state right after a reschedule: play() or seek() ran last and the
\* transport plays, so the reschedule was made from Position at device time now
Rescheduled == Playing /\ lastOp.op \in {"play", "seek"}

CommandsFor(tid, cid) ==
    {k \in 1..Len(activeSources) :
        activeSources[k].track = tid /\ activeSources[k].clip = cid}

\* C1: when play() is the first transport operation after a pause(), the
\* logical position right after play() is the logical position the transport
\* had when pause() ran, whatever time has passed on the device clock.
C1_ResumeAtPausedPosition ==
    (lastOp.op = "play" /\ lastOp.arg # -1) => Position = lastOp.arg

\* play() resumed at a position other than 0, with device time spent not playing
C1_Witness ==
    /\ lastOp.op = "play"
    /\ lastOp.arg > 0
    /\ Position = lastOp.arg
    /\ startTime > 0

\* C2: after stop(), from Stopped, Playing or Paused, the transport is Stopped,
\* the cursor and the paused-at value are 0, no command is pending, and one
\* position notification 0 and one 'stopped' notification were emitted.
C2_StopResets ==
    lastOp.op = "stop" =>
        /\ Stopped
        /\ ~isPaused
        /\ currentTime = 0
        /\ pauseTime = 0
        /\ activeSources = <<>>
        /\ posNotes = <<0>>
        /\ stateNotes = <<"stopped">>

\* stop() ran while the transport was already Stopped with the cursor at 0
C2_Witness ==
    /\ lastOp = Op("stop", 0)
    /\ posNotes = <<0>>
    /\ stateNotes = <<"stopped">>
    /\ tracks # <<>>

\* C3: while Playing, right after a seek, a play or a mute or solo toggle,
\* every track has as many pending commands as schedulePlayback would issue
\* for it from the current position under the current mute state.
C3_PendingMatchesFresh ==
    (Playing /\ lastOp.op \in {"seek", "play", "mute", "solo"}) =>
        \A i \in 1..Len(tracks) :
            Cardinality({k \in 1..Len(activeSources) :
                            activeSources[k].track = tracks[i].id})
              = Len(TracksSources(<<tracks[i]>>, now, Position))

\* C4: the pending set never holds a command of an earlier reschedule and
\* never holds two commands for the same track and clip.
C4_NoStaleNoDuplicate ==
    /\ \A k \in 1..Len(activeSources) : ~activeSources[k].stale
    /\ \A k1, k2 \in 1..Len(activeSources) :
          (k1 # k2) =>
              \/ activeSources[k1].track # activeSources[k2].track
              \/ activeSources[k1].clip # activeSources[k2].clip

\* a play() that overlapped another one (its loop frame leaked) rescheduled
\* two clips over the commands the other had issued
C4_Witness ==
    /\ lastOp.op = "play"
    /\ leakedFrames > 0
    /\ Len(activeSources) = 2

\* C5: a reschedule from position P at device time D issues, for every clip
\* of an unmuted track with startTime < P < startTime + duration, exactly one
\* command, with deviceStart D, sourceOffset offset + (P - startTime) and
\* playableDuration duration - (P - startTime).
C5_MidClipCommand ==
    Rescheduled =>
        \A i \in 1..Len(tracks) : \A j \in 1..Len(tracks[i].clips) :
            LET c == tracks[i].clips[j]
                cmds == CommandsFor(tracks[i].id, c.id)
            IN (~tracks[i].muted /\ c.startTime < Position
                    /\ Position < c.startTime + c.duration) =>
                  /\ Cardinality(cmds) = 1
                  /\ \A k \in cmds :
                        /\ activeSources[k].when = now
                        /\ activeSources[k].offset = c.offset + (Position - c.startTime)
                        /\ activeSources[k].duration = c.duration - (Position - c.startTime)

\* play() from position 3 with the clip startTime 2, offset 0, duration 3:
\* sourceOffset 1 and playableDuration 2
C5_Witness ==
    /\ Rescheduled
    /\ lastOp.op = "play"
    /\ Position = 3
    /\ \E i \in 1..Len(tracks) : \E j \in 1..Len(tracks[i].clips) :
          /\ ~tracks[i].muted
          /\ tracks[i].clips[j] = [id |-> 1, trackId |-> tracks[i].id, startTime |-> 2,
                                   offset |-> 0, duration |-> 3]
          /\ \E k \in CommandsFor(tracks[i].id, 1) :
                /\ activeSources[k].when = now
                /\ activeSources[k].offset = 1
                /\ activeSources[k].duration = 2

\* C6: a reschedule from position P at device time D issues, for every clip
\* of an unmuted track with startTime >= P, exactly one command, with
\* deviceStart D + (startTime - P), sourceOffset offset and playableDuration
\* duration.
C6_FutureClipCommand ==
    Rescheduled =>
        \A i \in 1..Len(tracks) : \A j \in 1..Len(tracks[i].clips) :
            LET c == tracks[i].clips[j]
                cmds == CommandsFor(tracks[i].id, c.id)
            IN (~tracks[i].muted /\ c.startTime >= Position) =>
                  /\ Cardinality(cmds) = 1
                  /\ \A k \in cmds :
                        /\ activeSources[k].when = now + (c.startTime - Position)
                        /\ activeSources[k].offset = c.offset
                        /\ activeSources[k].duration = c.duration

\* play() from position 0 at a device time D > 0 with the clip startTime 2,
\* offset 0, duration 3: deviceStart D + 2, sourceOffset 0, playableDuration 3
C6_Witness ==
    /\ Rescheduled
    /\ lastOp.op = "play"
    /\ Position = 0
    /\ now > 0
    /\ \E i \in 1..Len(tracks) : \E j \in 1..Len(tracks[i].clips) :
          /\ ~tracks[i].muted
          /\ tracks[i].clips[j] = [id |-> 1, trackId |-> tracks[i].id, startTime |-> 2,
                                   offset |-> 0, duration |-> 3]
          /\ \E k \in CommandsFor(tracks[i].id, 1) :
                /\ activeSources[k].when = now + 2
                /\ activeSources[k].offset = 0
                /\ activeSources[k].duration = 3

\* C7: a reschedule from position P issues no command for a clip with
\* startTime + duration <= P and no command of a duration <= 0, and the other
\* clips of an unmuted track still get their one command each.
C7_PastClipsSkipped ==
    Rescheduled =>
        /\ \A k \in 1..Len(activeSources) : activeSources[k].duration > 0
        /\ \A i \in 1..Len(tracks) : \A j \in 1..Len(tracks[i].clips) :
              LET c == tracks[i].clips[j]
                  cmds == CommandsFor(tracks[i].id, c.id)
              IN IF c.startTime + c.duration <= Position
                 THEN cmds = {}
                 ELSE ~tracks[i].muted => Cardinality(cmds) = 1

\* a reschedule from the very end of one clip of a track: nothing is issued
\* for it, and another clip of the same track has its command
C7_Witness ==
    /\ Rescheduled
    /\ \E i \in 1..Len(tracks) : \E j1, j2 \in 1..Len(tracks[i].clips) :
          /\ ~tracks[i].muted
          /\ tracks[i].clips[j1].startTime + tracks[i].clips[j1].duration = Position
          /\ CommandsFor(tracks[i].id, tracks[i].clips[j1].id) = {}
          /\ CommandsFor(tracks[i].id, tracks[i].clips[j2].id) # {}

\* the effective gain of track i under the mute/solo rule: 0 when muted,
\* else the volume when no track is soloed or the track is, else 0
EffectiveGain(i) ==
    IF tracks[i].muted THEN 0
    ELSE IF (\E n \in 1..Len(tracks) : tracks[n].solo) /\ ~tracks[i].solo THEN 0
    ELSE tracks[i].volume

\* C8 as stated: a reschedule issues commands only for tracks whose
\* effective gain is > 0.
C8_OnlyAudibleTracksScheduled ==
    Rescheduled =>
        \A k \in 1..Len(activeSources) : \A i \in 1..Len(tracks) :
            (tracks[i].id = activeSources[k].track) => EffectiveGain(i) > 0

\* C8 as amended: a reschedule issues commands only for unmuted tracks, and
\* every unmuted track gets one command per clip that has not ended, whatever
\* the solo flags and the volumes are.
C8_OnlyUnmutedTracksScheduled ==
    Rescheduled =>
        /\ \A k \in 1..Len(activeSources) : \E i \in 1..Len(tracks) :
              tracks[i].id = activeSources[k].track /\ ~tracks[i].muted
        /\ \A i \in 1..Len(tracks) : \A j \in 1..Len(tracks[i].clips) :
              LET c == tracks[i].clips[j]
              IN (~tracks[i].muted /\ c.startTime + c.duration > Position) =>
                    Cardinality(CommandsFor(tracks[i].id, c.id)) = 1

\* a reschedule with one track unmuted, not soloed and at volume 0, which has
\* a command, and the other one soloed and muted, whose clip has none
C8_Witness ==
    /\ Rescheduled
    /\ \E i, n \in 1..Len(tracks) :
          /\ ~tracks[i].muted /\ ~tracks[i].solo /\ tracks[i].volume = 0
          /\ \E k \in 1..Len(activeSources) : activeSources[k].track = tracks[i].id
          /\ tracks[n].muted /\ tracks[n].solo
          /\ \E j \in 1..Len(tracks[n].clips) :
                /\ tracks[n].clips[j].startTime + tracks[n].clips[j].duration > Position
                /\ CommandsFor(tracks[n].id, tracks[n].clips[j].id) = {}

\* the commands a reschedule from position P at device time D is to issue:
\* one per clip of an unmuted track that ends after P
ExpectedCommands(P, D) ==
    LET due == {ij \in (1..Len(tracks)) \X (1..2) :
                   /\ ij[2] <= Len(tracks[ij[1]].clips)
                   /\ ~tracks[ij[1]].muted
                   /\ tracks[ij[1]].clips[ij[2]].startTime
                        + tracks[ij[1]].clips[ij[2]].duration > P}
    IN {LET c == tracks[ij[1]].clips[ij[2]]
            started == c.startTime < P
        IN [track |-> tracks[ij[1]].id, clip |-> c.id,
            when |-> IF started THEN D ELSE D + (c.startTime - P),
            offset |-> IF started THEN c.offset + (P - c.startTime) ELSE c.offset,
            duration |-> IF started THEN c.duration - (P - c.startTime) ELSE c.duration,
            stale |-> FALSE] : ij \in due}

\* C9: after seek(t) while Playing the transport still plays, the cursor is
\* max(0, t), the epoch is deviceNow - max(0, t), and the pending commands are
\* exactly those of a reschedule from max(0, t), none left from before.
C9_SeekWhilePlaying ==
    (lastOp.op = "seek" /\ Playing) =>
        LET P == IF lastOp.arg < 0 THEN 0 ELSE lastOp.arg
        IN /\ currentTime = P
           /\ startTime = now - P
           /\ {activeSources[k] : k \in 1..Len(activeSources)} = ExpectedCommands(P, now)
           /\ Len(activeSources) = Cardinality(ExpectedCommands(P, now))

\* seek(-1) while Playing, some time after the device clock started: the
\* cursor is 0 and commands are pending
C9_Witness ==
    /\ lastOp = Op("seek", -1)
    /\ Playing
    /\ now > 0
    /\ currentTime = 0
    /\ activeSources # <<>>

C11_PlayIsAtomic ==
    [][ resumeWaiter.kind = "play" =>
            lastOp'.op \notin {"stop", "pause", "pauseNoop", "seek",
                               "playCall", "playNoop"} ]_vars

\* a step in which the notification loop notified a position or wrote the
\* cursor: the first update() run by startTimeUpdate, or a frame callback
LoopActed ==
    \/ lastOp'.op = "play"
    \/ /\ lastOp'.op = "other"
       /\ posNotes' # <<>> \/ currentTime' # currentTime

\* C12: once pause() or stop() has returned, and until play() is next
\* invoked, the notification loop notifies no position and does not write the
\* position cursor, whatever frames and other calls are interleaved.
C12_LoopCancelled ==
    [][ ~playInvoked => ~LoopActed ]_vars

\* C13: whenever the transport is Paused, the position cursor is the logical
\* position sampled when pause() ran, or the target of a later seek: the
\* paused-at value play() resumes from.
C13_PauseFreezesPosition ==
    Paused =>
        /\ currentTime = pauseTime
        /\ posAtPause # -1 => currentTime = posAtPause
        /\ seekPos # -1 => currentTime = seekPos

\* C14: after handleSoloLogic has run (it ends the mute and the solo click
\* handlers), whatever the muted and solo flags of the tracks are, the gain
\* of every track is its effective gain: 0 when muted, else its volume when
\* no track is soloed or the track is, else 0.
C14_ResolverGivesEffectiveGain ==
    lastOp.op \in {"mute", "solo"} =>
        \A i \in 1..Len(tracks) : tracks[i].gain = EffectiveGain(i)

\* C15: in every state reached by mute toggles, solo toggles and volume
\* changes, a muted track has gain 0, also when it is soloed.
C15_MuteOverSolo ==
    \A i \in 1..Len(tracks) : tracks[i].muted => tracks[i].gain = 0

\* C16: right after the volume slider or the mixer fader of a track has
\* called Track.setVolume, the gain of that track is its effective gain under
\* the mute/solo rule over all tracks (0 while another track is soloed and
\* this one is not).
C16_SetVolumeGivesEffectiveGain ==
    lastOp.op = "volume" =>
        \A i \in 1..Len(tracks) :
            tracks[i].id = lastOp.arg => tracks[i].gain = EffectiveGain(i)

\* C17: right after a track was added or removed, the gain of every track
\* of the list is its effective gain under the mute/solo rule.
C17_GainsRecomputedOnAddRemove ==
    lastOp.op \in {"addTrack", "removeTrack"} =>
        \A i \in 1..Len(tracks) : tracks[i].gain = EffectiveGain(i)

\* C18: a play() call made while the transport is Playing changes nothing:
\* state, epoch, cursor, paused-at value and pending commands stay, no frame
\* is requested, no continuation is queued that would act later, and no
\* notification is emitted.
C18_PlayWhilePlayingNoop ==
    [][ (Playing /\ lastOp'.op \in {"playCall", "playNoop"}) =>
            /\ UNCHANGED <<isPlaying, isPaused, startTime, currentTime, pauseTime,
                           activeSources, animationFrameId, framePending,
                           leakedFrames, audioContext, resumeWaiter, micro,
                           now, tracks>>
            /\ posNotes' = <<>>
            /\ stateNotes' = <<>> ]_vars

\* play() was called while Playing at position 1 with commands pending and a
\* frame requested
C18_Witness ==
    /\ lastOp.op = "playNoop"
    /\ Playing
    /\ Position = 1
    /\ activeSources # <<>>
    /\ framePending
    /\ leakedFrames = 0
    /\ micro = NoCont
    /\ posNotes = <<>>
    /\ stateNotes = <<>>

\* C19: a pause() call made while the transport is Stopped (also on an
\* engine that has no audio context yet) or already Paused changes no
\* transport state (state, epoch, paused-at value, cursor, pending commands,
\* loop), creates no context and emits no notification.
C19_PauseOnlyFromPlaying ==
    [][ (~Playing /\ lastOp'.op \in {"pause", "pauseNoop"}) =>
            /\ UNCHANGED <<isPlaying, isPaused, startTime, pauseTime, currentTime,
                           activeSources, animationFrameId, framePending,
                           leakedFrames, audioContext, resumeWaiter, micro,
                           now, tracks>>
            /\ posNotes' = <<>>
            /\ stateNotes' = <<>> ]_vars

\* pause() was called while Paused, after the device clock had moved on from
\* the instant of the first pause()
C19_Witness ==
    /\ lastOp.op = "pauseNoop"
    /\ Paused
    /\ pauseTime # now - startTime
    /\ stateNotes = <<>>

StateName == IF ~isPlaying THEN "stopped" ELSE IF ~isPaused THEN "playing" ELSE "paused"

\* C20: a step that takes the transport from one of Stopped, Playing and
\* Paused to another makes exactly one onPlayStateChange call, naming the new
\* state, and a step that changes the position cursor makes one onTimeUpdate
\* call with the new cursor value.
C20_TransitionsNotify ==
    [][ /\ StateName' # StateName => stateNotes' = <<StateName'>>
        /\ currentTime' # currentTime => posNotes' = <<currentTime'>> ]_vars

\* pause() took the transport from Playing to Paused with the cursor past 0:
\* 'paused' was notified, and no position
C20_Witness ==
    /\ lastOp.op = "pause"
    /\ Paused
    /\ currentTime > 0
    /\ stateNotes = <<"paused">>
    /\ posNotes = <<>>

\* the values listener s was called with by the last handler, in order
Received(callback, notes, s) ==
    LET calls == ListenerCalls(callback, notes)
        mine == SelectSeq(calls, LAMBDA c : c.to = s)
    IN [k \in 1..Len(mine) |-> mine[k].value]

\* the listeners the last handler called for its first notification, in order
CallOrder(callback, notes) ==
    IF notes = <<>> THEN <<>>
    ELSE [k \in 1..Len(callback) |-> ListenerCalls(callback, notes)[k].to]

\* C21: each callback runs every listener that subscribed to it, once per
\* notification and in the order of subscription: a later subscription
\* removes no earlier listener, and every listener receives every position
\* (or state) the engine notifies.
C21_AllSubscribersNotified ==
    /\ onTimeUpdate = registered.time
    /\ onPlayStateChange = registered.state
    /\ \A i \in 1..Len(registered.time) :
          Received(onTimeUpdate, posNotes, registered.time[i]) = posNotes
    /\ \A i \in 1..Len(registered.state) :
          Received(onPlayStateChange, stateNotes, registered.state[i]) = stateNotes
    /\ posNotes # <<>> => CallOrder(onTimeUpdate, posNotes) = registered.time

\* the timeline subscribed before the toolbar, and stop() then notified
\* position 0 to both, the timeline first, and 'stopped' to the toolbar
C21_Witness ==
    /\ registered.time = <<"timeline", "toolbar">>
    /\ lastOp.op = "stop"
    /\ ListenerCalls(onTimeUpdate, posNotes)
         = << [to |-> "timeline", value |-> 0], [to |-> "toolbar", value |-> 0] >>
    /\ ListenerCalls(onPlayStateChange, stateNotes)
         = << [to |-> "toolbar", value |-> "stopped"] >>

\* C22: in every reachable state, after any play, pause, stop, seek(t) with
\* t negative or not, and frames against the device clock, the position
\* cursor is >= 0, and so are the paused-at value and every position notified.
C22_PositionNonNegative ==
    /\ currentTime >= 0
    /\ pauseTime >= 0
    /\ \A k \in 1..Len(posNotes) : posNotes[k] >= 0
    /\ Playing => Position >= 0

\* seek(-1) ran while playing, after the clock had advanced: the cursor is 0
C22_Witness ==
    /\ lastOp = Op("seek", -1)
    /\ Playing
    /\ now = 2
    /\ currentTime = 0
    /\ posNotes = <<0>>
    /\ startTime = 2

InTempoRange(x) == x.t = "num" /\ MinTempo <= x.v /\ x.v <= MaxTempo

\* C23: setTempo(bpm) with a number bpm leaves tempo = min(300, max(20, bpm)),
\* and every tempo operation given a number leaves the tempo within [20, 300].
C23_TempoClamped ==
    [][ tempoArg'.t = "num" =>
            /\ InTempoRange(tempo')
            /\ lastOp'.op = "setTempo" =>
                  tempo' = Num(Min(MaxTempo, Max(MinTempo, tempoArg'.v))) ]_vars

\* setTempo(300.1) left the tempo at 300
C23_Witness ==
    /\ lastOp.op = "setTempo"
    /\ tempoArg = Num(3001)
    /\ tempo = Num(MaxTempo)

\* C24: a tempo operation given a value that is not a valid number (NaN, a
\* text that is no number, undefined), through audioEngine.setTempo, through
\* Toolbar.setBpm or typed into the BPM field, leaves the tempo as it was.
C24_NonNumericTempoRejected ==
    [][ (lastOp'.op \in {"setTempo", "setBpm", "bpmChange"} /\ tempoArg'.t # "num")
            => tempo' = tempo ]_vars

\* C25: however many init() calls are made, directly or by play, addTrack
\* and seek, also while an earlier one still waits for resume(), one audio
\* context and one master gain node are made in all; and an init() called
\* when the context exists changes no state of the engine.
C25_InitIdempotent ==
    [][ /\ created'.context = (IF audioContext' = "none" THEN 0 ELSE 1)
        /\ created'.masterGain = created'.context
        /\ (lastOp'.op = "init" /\ audioContext # "none") =>
              UNCHANGED <<audioContext, created, resumeWaiter, now, isPlaying,
                          isPaused, startTime, pauseTime, currentTime, tracks,
                          activeSources, animationFrameId, framePending,
                          leakedFrames, appVars>> ]_vars

\* init() was called while an earlier init() still waits for resume(): it
\* has returned, and one context exists
C25_Witness ==
    /\ lastOp.op = "init"
    /\ audioContext = "suspended"
    /\ resumeWaiter.kind = "init"
    /\ micro.kind = "init"
    /\ created = [context |-> 1, masterGain |-> 1]

\* C26: on an engine that has no audio context, seek(t) moves the cursor and
\* the paused-at value to max(0, t) and notifies that position once, without
\* issuing a command, computing an epoch from the device clock or changing
\* the transport state; pause() changes nothing; stop() leaves the transport
\* Stopped at 0 with no command pending.
C26_NoContextOperations ==
    [][ audioContext = "none" =>
          /\ lastOp'.op = "seek" =>
                LET P == IF lastOp'.arg < 0 THEN 0 ELSE lastOp'.arg
                IN /\ currentTime' = P
                   /\ pauseTime' = P
                   /\ posNotes' = <<P>>
                   /\ stateNotes' = <<>>
                   /\ activeSources' = <<>>
                   /\ UNCHANGED <<isPlaying, isPaused, startTime, now,
                                  animationFrameId, framePending>>
          /\ lastOp'.op \in {"pause", "pauseNoop"} =>
                /\ posNotes' = <<>>
                /\ stateNotes' = <<>>
                /\ UNCHANGED <<audioContext, isPlaying, isPaused, startTime,
                               pauseTime, currentTime, activeSources>>
          /\ lastOp'.op = "stop" =>
                /\ ~isPlaying' /\ ~isPaused'
                /\ currentTime' = 0 /\ pauseTime' = 0
                /\ activeSources' = <<>>
                /\ UNCHANGED <<audioContext, startTime, now>> ]_vars

\* seek(3) ran on an engine without a context: the cursor and the paused-at
\* value are 3, the epoch is untouched, and the context seekTo asked for is
\* still suspended
C26_Witness ==
    /\ lastOp = Op("seek", 3)
    /\ resumeWaiter.kind = "seek"
    /\ audioContext = "suspended"
    /\ Stopped
    /\ currentTime = 3
    /\ pauseTime = 3
    /\ startTime = 0
    /\ posNotes = <<3>>
    /\ activeSources = <<>>

SortedByStartTime(clips) ==
    \A j \in 1..(Len(clips) - 1) : clips[j].startTime <= clips[j + 1].startTime

\* C27: right after track.addClip(c), the clip list of that track is sorted
\* ascending by startTime, whatever its order was before (a dragged clip may
\* have left it unsorted) and whatever startTime c has.
C27_SortedAfterAddClip ==
    lastOp.op = "addClip" =>
        \A i \in 1..Len(tracks) :
            tracks[i].id = lastOp.arg => SortedByStartTime(tracks[i].clips)

\* addClip ran on a track that now holds three clips, two of which start at
\* the same time, with clip 1, which the menu has at 2, dragged to the front
C27_Witness ==
    /\ lastOp.op = "addClip"
    /\ \E i \in 1..Len(tracks) :
          /\ tracks[i].id = lastOp.arg
          /\ Len(tracks[i].clips) = 3
          /\ tracks[i].clips[1].id = 1
          /\ tracks[i].clips[1].startTime = 0
          /\ tracks[i].clips[2].startTime = tracks[i].clips[3].startTime

\* C28: after setDuration(d), for any d and any source length, the clip has
\* 0.1 <= duration <= sourceDuration - offset, also when sourceDuration -
\* offset is below 0.1 (or the clip has no buffer).
C28_DurationWithinSource ==
    lastOp.op = "setDuration" =>
        /\ MinDuration <= editedClip.duration
        /\ editedClip.duration <= getOriginalDuration(editedClip) - editedClip.offset

\* the samples window i (from 1) of `width` samples covers, as indices from 1
Window(i, width) == ((i - 1) * width + 1)..(i * width)

\* C29: getWaveformData(n) returns exactly n values for every n >= 1 and
\* every buffer (shorter than n, missing, or with a result of another length
\* cached); value i is the largest absolute sample of window i, where the n
\* contiguous windows of floor(totalSamples/n) samples partition the samples
\* of channel 0; so every value is 0 for an all-zero buffer.
C29_PeaksOverPartition ==
    lastOp.op = "getWaveformData" =>
        LET n == lastOp.arg
            channelData == editedClip.audioBuffer.channelData
            totalSamples == Len(channelData)
            width == totalSamples \div n
        IN /\ Len(peaks) = n
           /\ \A i \in 1..n :
                 peaks[i] = WindowMax(channelData, (i - 1) * width, i * width)
           /\ \A j \in 1..totalSamples :
                 \E i \in 1..n : j \in Window(i, width)
           /\ (\A j \in 1..totalSamples : channelData[j] = 0) =>
                 \A i \in 1..n : peaks[i] = 0

\* C30: snap is idempotent: for every time t and every tempo in [20, 300],
\* with the grid fraction in use, snapTime(snapTime(t)) = snapTime(t), where
\* snapTime(t) = round(t / interval) * interval and interval = (60 / tempo) *
\* gridSize.
C30_SnapIdempotent ==
    (lastOp.op = "snapTime" /\ InTempoRange(tempo)) => snapTime(gridTime) = gridTime

\* snapTime ran at a tempo within the range other than the default and
\* returned a grid line that is neither 0 nor a whole pointer time
C30_Witness ==
    /\ lastOp.op = "snapTime"
    /\ InTempoRange(tempo)
    /\ tempo.v # DefaultTempo
    /\ gridTime.n # 0
    /\ gridTime # Rat(1, 1)
    /\ gridTime # Rat(3, 1)
    /\ gridTime # Rat(7, 1)

\* the bar, beat and tick of `seconds` at a tempo that is a number, as the
\* formulas give them
PositionParts(seconds, bpm) ==
    LET totalBeats == RatMul(seconds, RatDiv(bpm, Rat(60, 1)))
        whole == totalBeats.n \div totalBeats.d
        frac == Rat(totalBeats.n - whole * totalBeats.d, totalBeats.d)
    IN [bars |-> (whole \div 4) + 1,
        beats |-> (whole % 4) + 1,
        ticks |-> (frac.n * 1000) \div frac.d]

\* C31: formatTime(seconds) is a function of seconds and the tempo alone: with
\* totalBeats = seconds * tempo / 60 it renders bars = floor(totalBeats / 4) +
\* 1, beats = floor(totalBeats mod 4) + 1, always within 1..4, and ticks =
\* floor(frac(totalBeats) * 1000), always within 0..999, zero-padded as
\* BBB:BB:TTT; at tempo 120, 0 s gives 001:01:000 and 2 s gives 002:01:000.
C31_FormatTime ==
    lastOp.op = "formatTime" =>
        /\ tempo.t = "num"
        /\ LET parts == PositionParts(formatArg, TempoRat(tempo))
           IN /\ parts.beats \in 1..4
              /\ parts.ticks \in 0..999
              /\ timeDisplay = padStart(Digits(parts.bars), 3) \o <<":">>
                                   \o padStart(Digits(parts.beats), 2) \o <<":">>
                                   \o padStart(Digits(parts.ticks), 3)
              /\ (tempo.v = DefaultTempo /\ formatArg = Rat(0, 1)) =>
                     timeDisplay = <<"0", "0", "1", ":", "0", "1", ":", "0", "0", "0">>
              /\ (tempo.v = DefaultTempo /\ formatArg = Rat(2, 1)) =>
                     timeDisplay = <<"0", "0", "2", ":", "0", "1", ":", "0", "0", "0">>

\* the fields of a clip that clone() is to carry over
Carried(c) ==
    [name |-> c.name, startTime |-> c.startTime, offset |-> c.offset,
     duration |-> c.duration]

\* C32: clone() returns a clip whose id differs from the id of every clip made
\* before it, that shares the buffer, has no trackId, and has the name,
\* startTime, offset and duration of the original; afterwards setStartTime,
\* move or setDuration on either clip leaves the other clip's fields as they
\* were.
C32_CloneIndependent ==
    /\ [](lastOp.op = "clone" =>
            /\ clipboard # cloneOf
            /\ \A k \in 1..Len(clipHeap) :
                  k # clipboard => clipHeap[k].id # clipHeap[clipboard].id
            /\ clipHeap[clipboard].audioBuffer = clipHeap[cloneOf].audioBuffer
            /\ clipHeap[clipboard].trackId = NoTrackId
            /\ Carried(clipHeap[clipboard]) = Carried(clipHeap[cloneOf]))
    /\ [][lastOp'.op \in {"setStartTime", "move", "setDuration"} =>
            \A k \in 1..Len(clipHeap) : k # lastOp'.arg => clipHeap'[k] = clipHeap[k]]_vars

\* a clip that sits on a track was cloned and the copy then moved, so that
\* the two now start at different times
C32_Witness ==
    /\ lastOp = Op("move", clipboard)
    /\ cloneOf # 0
    /\ clipHeap[cloneOf].trackId # NoTrackId
    /\ clipHeap[cloneOf].name = "kick"
    /\ clipHeap[clipboard].startTime # clipHeap[cloneOf].startTime
    /\ clipHeap[clipboard].duration = clipHeap[cloneOf].duration

\* C33: whenever the transport is Stopped or Paused no playback command is
\* pending, whatever play, pause, stop and seek calls were made, play() calls
\* that overlap while waiting for the device included.
C33_NoCommandsUnlessPlaying == ~Playing => activeSources = <<>>

\* pause() ran after two play() calls overlapped, with an unmuted clip on the
\* timeline
C33_Witness ==
    /\ Paused
    /\ lastOp.op = "pause"
    /\ leakedFrames > 0
    /\ \E i \in 1..Len(tracks) : tracks[i].clips # <<>> /\ ~tracks[i].muted

\* C34: stop() is final with respect to earlier requests: when stop() ran
\* while a play() call was suspended waiting for the device, the step that
\* completes that call (no call is outstanding after it) leaves the transport
\* Stopped at position 0 with no pending commands and no notification loop.
C34_StopIsFinal ==
    [][ (lastOp.op = "stop" /\ resumeWaiter.kind = "play"
             /\ resumeWaiter' = NoCont /\ micro' = NoCont) =>
            /\ ~isPlaying'
            /\ currentTime' = 0
            /\ activeSources' = <<>>
            /\ ~animationFrameId'
            /\ ~framePending' ]_vars

\* the frame callbacks of the notification loop that are waiting to fire
PendingFrames == (IF framePending THEN 1 ELSE 0) + leakedFrames

\* C35: at most one position-notification loop is live: while the transport
\* plays at most one loop callback is waiting for the next tick, whatever
\* play, pause, stop and seek calls were made, two play() calls that overlap
\* while waiting for the device included.
C35_OneLoop == Playing => PendingFrames <= 1

\* the clip cid is in the list of a track tid of the model
ClipInModel(tid, cid) ==
    \E i \in 1..Len(tracks) :
        /\ tracks[i].id = tid
        /\ \E j \in 1..Len(tracks[i].clips) : tracks[i].clips[j].id = cid

\* C36: while the transport plays no pending command refers to a track or a
\* clip that is no longer in the model: after removeTrack(id) and after a clip
\* was removed from its track, no pending command targets the removed track's
\* gain node or plays the removed clip.
C36_NoCommandForRemoved ==
    Playing =>
        \A k \in 1..Len(activeSources) :
            ClipInModel(activeSources[k].track, activeSources[k].clip)

\* C37: at every reschedule each track's clips are visited in ascending
\* startTime order: the clip list of every track is sorted in every reachable
\* state, also after a clip already on the track was repositioned with
\* setStartTime (by a drag on the timeline).
C37_ClipsAlwaysSorted ==
    \A i \in 1..Len(tracks) : SortedByStartTime(tracks[i].clips)

\* C38: every command a reschedule from position P >= 0 at device time D
\* issues for a clip satisfies deviceStart >= D, clip.offset <= sourceOffset <
\* clip.offset + clip.duration, 0 < playableDuration <= clip.duration,
\* sourceOffset + playableDuration = clip.offset + clip.duration, and P +
\* (deviceStart - D) + playableDuration = clip.startTime + clip.duration: the
\* clip ends at its end on the timeline.
C38_CommandWithinClip ==
    (Rescheduled /\ Position >= 0) =>
        \A i \in 1..Len(tracks) : \A j \in 1..Len(tracks[i].clips) :
            LET c == tracks[i].clips[j]
            IN \A k \in CommandsFor(tracks[i].id, c.id) :
                  LET cmd == activeSources[k]
                  IN /\ cmd.when >= now
                     /\ c.offset <= cmd.offset
                     /\ cmd.offset < c.offset + c.duration
                     /\ 0 < cmd.duration
                     /\ cmd.duration <= c.duration
                     /\ cmd.offset + cmd.duration = c.offset + c.duration
                     /\ Position + (cmd.when - now) + cmd.duration
                            = c.startTime + c.duration

\* a play() from a position above 0 rescheduled clip 2, which the position
\* lies within, and clip 1, which starts later
C38_Witness ==
    /\ Rescheduled
    /\ lastOp.op = "play"
    /\ Position > 0
    /\ \E k1, k2 \in 1..Len(activeSources) :
          /\ activeSources[k1].clip = 2
          /\ activeSources[k1].when = now
          /\ activeSources[k1].duration < 2
          /\ activeSources[k2].clip = 1
          /\ activeSources[k2].when > now

-----------------------------------------------------------------------------
(* Track.addClip, Track.removeClip and Timeline.moveClipToTrack called with
   any clip and any track. A clip is one object: the copies of it in the
   lists share the trackId field. *)

\* `clip.trackId = ...` as the other lists that hold the same object see it
SetTrackId(ts, clipId, tid) ==
    [i \in 1..Len(ts) |->
        [ts[i] EXCEPT !.clips =
            [j \in 1..Len(ts[i].clips) |->
                IF ts[i].clips[j].id = clipId
                THEN [ts[i].clips[j] EXCEPT !.trackId = tid]
                ELSE ts[i].clips[j]]]]

\* track.addClip(clip): the method does not look whether the clip is held
\* already, by this track or by another
TrackAddClip ==
    \E i \in 1..Len(tracks) : \E c \in ClipMenu :
        /\ Len(tracks[i].clips) < MaxListLen
        /\ ModelEdit([SetTrackId(tracks, c.id, tracks[i].id) EXCEPT ![i] = addClip(@, c)],
                     "addClip", tracks[i].id)

\* track.removeClip(clipId)
TrackRemoveClip ==
    \E i \in 1..Len(tracks) : \E c \in ClipMenu :
        ModelEdit([tracks EXCEPT ![i] = removeClip(@, c.id)], "removeClip", tracks[i].id)

\* Timeline.moveClipToTrack(clip, fromTrackId, toTrackId); with a track id
\* that names no track it returns at once
TimelineMoveClipToTrack ==
    \E i, n \in 1..Len(tracks) : \E c \in ClipMenu :
        LET removed == [tracks EXCEPT ![i] = removeClip(@, c.id)]
            marked == SetTrackId(removed, c.id, tracks[n].id)
        IN /\ Len(marked[n].clips) < MaxListLen
           /\ ModelEdit([marked EXCEPT ![n] = addClip(@, c)], "moveClipToTrack", tracks[n].id)

NextTrackApi ==
    \/ AddTrack
    \/ Microtask
    \/ ResumeDone
    \/ TrackAddClip
    \/ TrackRemoveClip
    \/ TimelineMoveClipToTrack

\* The clip lists under the three list operations, each with any arguments
SpecTrackApi == Init /\ [][NextTrackApi]_vars

\* the places <<track, index>> where the lists hold the clip
Holders(clipId) ==
    { p \in (1..Len(tracks)) \X (1..MaxListLen + 1) :
        /\ p[2] <= Len(tracks[p[1]].clips)
        /\ tracks[p[1]].clips[p[2]].id = clipId }

\* C39: after any sequence of addClip, removeClip and moveClipToTrack, every
\* clip is held by at most one track and at most once by it, and the trackId
\* of a held clip is the id of the track that holds it
C39_SingleMembership ==
    \A c \in ClipMenu :
        /\ Cardinality(Holders(c.id)) <= 1
        /\ \A p \in Holders(c.id) : tracks[p[1]].clips[p[2]].trackId = tracks[p[1]].id

-----------------------------------------------------------------------------
(* stopAllSources() called on its own, with the outcome of each source.stop() *)

\* where a started source is at device time D: its start time `when` is still
\* ahead, it is sounding, or it has played its duration out
SourceState(src, D) ==
    IF D < src.when THEN "scheduled"
    ELSE IF D < src.when + src.duration THEN "playing"
    ELSE "finished"

\* the forEach without the try/catch: the first stop() that throws ends it
forEachStopUncaught(sources, throwing) ==
    [stopped |-> { i \in 1..Len(sources) : \A k \in throwing : i < k },
     raised |-> throwing # {}]

\* the forEach of stopAllSources: source.stop() in a try/catch for every
\* source in turn; throwing holds the sources whose stop() throws
forEachStop(sources, throwing) ==
    [stopped |-> (1..Len(sources)) \ throwing, raised |-> FALSE]

\* the sources whose stop() a browser may answer with an InvalidStateError:
\* those with nothing left to stop
MayThrow(sources, D) ==
    { i \in 1..Len(sources) : SourceState(sources[i], D) = "finished" }

\* the kinds of source the list holds at device time D
PendingKinds(sources, D) == { SourceState(sources[i], D) : i \in 1..Len(sources) }

\* audioEngine.stopAllSources(); an exception that leaves the forEach also
\* skips `this.activeSources = []`
StopAllSources ==
    \E throwing \in SUBSET MayThrow(activeSources, now) :
        LET each == forEachStop(activeSources, throwing)
        IN /\ Idle
           /\ activeSources' = IF each.raised THEN activeSources ELSE <<>>
           /\ thrown' = each.raised
           /\ cancelRun' = IF lastOp.op = "stopAllSources"
                           THEN [cancelRun EXCEPT !.calls = Min(@ + 1, 2)]
                           ELSE [calls |-> 1,
                                 kinds |-> PendingKinds(activeSources, now),
                                 caught |-> Cardinality(throwing)]
           /\ posNotes' = <<>>
           /\ stateNotes' = <<>>
           /\ lastOp' = Op("stopAllSources", Len(activeSources))
           /\ UNCHANGED <<audioContext, created, now, resumeWaiter, micro, isPlaying,
                          isPaused, startTime, pauseTime, currentTime, tracks,
                          trackCounter, animationFrameId, framePending, leakedFrames,
                          posAtPause, seekPos, playInvoked, subscriberVars, tempoVars,
                          clipVars, timelineVars, displayVars, cloneVars>>

NextCancel ==
    \/ AddTrack
    \/ Microtask
    \/ ResumeDone
    \/ AddClipTo
    \/ Play
    \/ Tick
    \/ StopAllSources

\* The pending sources of a playing transport, cancelled at any moment
SpecCancel == Init /\ [][NextCancel]_vars

\* C40: stopAllSources() never raises, whatever mix of finished, playing and
\* not yet started sources is pending, and leaves the list of sources empty;
\* called again right after, it changes nothing
C40_CancelIdempotent ==
    /\ [](lastOp.op = "stopAllSources" => ~thrown /\ activeSources = <<>>)
    /\ [][lastOp.op = "stopAllSources" /\ lastOp'.op = "stopAllSources"
            => /\ activeSources' = activeSources
               /\ thrown' = thrown
               /\ UNCHANGED <<transportVars, subscriberVars, tempoVars, clipVars,
                              timelineVars, displayVars, cloneVars>>]_vars

\* stopAllSources() ran twice in a row; the first call had a finished source
\* and a sounding one to stop, and the stop() of the finished one threw
C40_Witness ==
    /\ lastOp = Op("stopAllSources", 0)
    /\ cancelRun.calls = 2
    /\ cancelRun.kinds = {"finished", "playing"}
    /\ cancelRun.caught = 1
    /\ ~thrown
    /\ activeSources = <<>>

====
